---- MODULE Spec2Model ----
(***************************************************************************)
(* Model of gtasks-rs: the Service facade (src/src/lib.rs), the resource   *)
(* operations (src/src/tasks.rs, src/src/tasklists.rs), the bearer-token   *)
(* middleware (src/src/http.rs) and the error type (src/src/errors.rs).    *)
(*                                                                         *)
(* Each invocation of a Service method is a call c.  A call runs in three  *)
(* steps, split where the async code suspends:                             *)
(*   1. the method's head: argument checks, URL, headers, body, send();    *)
(*   2. AuthMiddleware::handle: token supplier, Authorization, next.run;   *)
(*   3. the method's tail: the transport answers, status and body are      *)
(*      classified and the result is returned.                             *)
(* Rust Option<T> is a sequence of length 0 (None) or 1 (Some).  Header    *)
(* values, tokens and response bodies are sequences of byte values.        *)
(***************************************************************************)
EXTENDS Integers, Sequences, FiniteSets, TLC

\* Number of Service method invocations that may run concurrently.
NumCalls == 2

Calls == 1..NumCalls

VARIABLES
    pc,        \* pc[c]: "idle", "handle", "inflight" or "done"
    op,        \* op[c]: name of the Service method invoked
    arg,       \* arg[c]: the caller's arguments (etag, entity)
    req,       \* req[c]: the request as built so far
    supplied,  \* supplied[c]: results the token provider returned to this call
    wire,      \* wire[c]: requests of this call that reached next.run
    resp,      \* resp[c]: the response the transport returned, if any
    consumed,  \* consumed[c]: how the response body was read: none, text, json
    result     \* result[c]: the value returned to the caller

vars == <<pc, op, arg, req, supplied, wire, resp, consumed, result>>

(***************************************************************************)
(* Bytes, header values, text                                              *)
(***************************************************************************)

\* http::HeaderValue accepts a byte iff it is a tab or visible ASCII/obs-text.
IsValidHeaderByte(b) == b = 9 \/ (b >= 32 /\ b # 127)

HeaderValue_from_bytes_ok(bytes) == \A i \in DOMAIN bytes : IsValidHeaderByte(bytes[i])

\* U+FFFD, what String::from_utf8_lossy puts in place of an invalid byte.
ReplacementChar == 65533

\* Response::text: lossy UTF-8 decoding of the body bytes (the bodies of this
\* model hold ASCII bytes and the lone invalid byte 255).
Text(bytes) == [i \in DOMAIN bytes |-> IF bytes[i] < 128 THEN bytes[i] ELSE ReplacementChar]

\* The token provider's possible answers.
Token1 == <<97>>
Token2 == <<98>>
TokenNewline == <<97, 10>>
Tokens == {Token1, Token2, TokenNewline}
SupplierErrors == {"token expired", "io error"}
SupplierOutcomes ==
    [ok : {TRUE}, token : Tokens, error : {""}]
        \cup [ok : {FALSE}, token : {<<>>}, error : SupplierErrors]

\* ETag arguments: None, Some("\"a\""), Some("\n").
EtagA == <<34, 97, 34>>
EtagNewline == <<10>>
Etags == {<<>>, <<EtagA>>, <<EtagNewline>>}

(***************************************************************************)
(* Entities and their JSON serialisation                                   *)
(***************************************************************************)

\* Task and Tasklist: the Option fields the operations look at.
Entities == [id : {<<>>, <<"id1">>}, title : {<<"t">>}, updated : {<<>>, <<"2020-01-01T00:00:00Z">>}]

NewEntities == {v \in Entities : v.id = <<>>}

\* serde_json::to_vec with skip_serializing_if = "Option::is_none": the JSON
\* object holds exactly the fields that are Some.
Serialize(v) ==
    LET present == {f \in DOMAIN v : v[f] # <<>>}
    IN  [f \in present |-> v[f][1]]

(***************************************************************************)
(* Responses and JSON decoding                                             *)
(***************************************************************************)

Statuses == {200, 304, 404, 500}

BodyEmpty == <<>>
BodyGarbage == <<78, 111, 255>>
BodyEmptyObject == <<123, 125>>
BodyFullObject == <<123, 34, 107, 105, 110, 100, 34, 58, 34, 107, 34, 44, 34, 101, 116, 97, 103, 34, 58, 34, 101, 34, 44, 34, 105, 116, 101, 109, 115, 34, 58, 91, 93, 125>>
Bodies == {BodyEmpty, BodyGarbage, BodyEmptyObject, BodyFullObject}

\* A response: status, body bytes, and whether the body stream can be read to
\* its end (a connection that breaks mid-body delivers nothing).
Responses ==
    [status : Statuses, body : Bodies, readable : {TRUE}]
        \cup [status : Statuses, body : {<<>>}, readable : {FALSE}]

\* The transport either fails to deliver a response or delivers one.
TransportOutcomes ==
    [ok : {TRUE}, response : Responses]
        \cup [ok : {FALSE}, response : {[status |-> 0, body |-> <<>>, readable |-> FALSE]}]

\* serde_json::from_slice on the bodies above: None, or Some(keys of the object).
ParseJson(bytes) ==
    CASE bytes = BodyEmptyObject -> <<{}>>
      [] bytes = BodyFullObject -> <<{"kind", "etag", "items"}>>
      [] OTHER -> <<>>

\* Fields that are not Option in the Deserialize structs.
RequiredFields(type) ==
    CASE type = "Tasks" -> {"kind", "etag"}
      [] type = "Tasklists" -> {"kind", "etag", "items"}
      [] type = "Task" -> {}
      [] type = "Tasklist" -> {}

(***************************************************************************)
(* Results: Result<T, TasksError>                                          *)
(***************************************************************************)

NoResult == [tag |-> "None", variant |-> "", kind |-> "", msg |-> "", text |-> <<>>, val |-> <<>>]

\* Ok values: variant is "Some", "None" (Option results), "Value" or "Unit".
Ok(shape, val) == [tag |-> "Ok", variant |-> shape, kind |-> "", msg |-> "", text |-> <<>>, val |-> val]

\* TasksError: variant is the enum variant, kind the wrapped error's kind, msg
\* a fixed message, text a body text.
Err(variant, kind, msg, text) ==
    [tag |-> "Err", variant |-> variant, kind |-> kind, msg |-> msg, text |-> text, val |-> <<>>]

InvalidArgument(msg) == Err("InvalidArgument", "", msg, <<>>)

ResponseError(text) == Err("ResponseError", "", "", text)

\* From<reqwest::Error> for TasksError.
HttpError(kind) == Err("HttpError", kind, "", <<>>)

\* From<reqwest_middleware::Error> for TasksError.
MiddlewareError(kind, msg) == Err("MiddlewareError", kind, msg, <<>>)

Outcome(r, how) == [result |-> r, consumed |-> how]

IsSuccess(status) == status >= 200 /\ status < 300

NOT_MODIFIED == 304

\* Response::json::<T>: read the whole body, then decode it.
Json(r, type, shape) ==
    IF ~r.readable
    THEN Outcome(HttpError("body"), "json")
    ELSE LET parsed == ParseJson(r.body)
         IN  IF parsed = <<>> \/ ~(RequiredFields(type) \subseteq parsed[1])
             THEN Outcome(HttpError("decode"), "json")
             ELSE Outcome(Ok(shape, <<[type |-> type, fields |-> parsed[1]]>>), "json")

\* ensure_status_success letting every status below 400 pass.
ensure_status_success_below_400(r) ==
    IF r.status >= 400
    THEN [pass |-> FALSE,
          out |-> IF r.readable
                  THEN Outcome(ResponseError(Text(r.body)), "text")
                  ELSE Outcome(HttpError("body"), "text")]
    ELSE [pass |-> TRUE, out |-> Outcome(NoResult, "none")]

\* ensure_status_success putting the status code in front of the body text.
ensure_status_success_with_status(r) ==
    IF ~IsSuccess(r.status)
    THEN [pass |-> FALSE,
          out |-> IF r.readable
                  THEN Outcome(ResponseError(<<r.status>> \o Text(r.body)), "text")
                  ELSE Outcome(HttpError("body"), "text")]
    ELSE [pass |-> TRUE, out |-> Outcome(NoResult, "none")]

\* lib.rs ensure_status_success: pass is TRUE when the response is handed back.
ensure_status_success(r) ==
    IF ~IsSuccess(r.status)
    THEN [pass |-> FALSE,
          out |-> IF r.readable
                  THEN Outcome(ResponseError(Text(r.body)), "text")
                  ELSE Outcome(HttpError("body"), "text")]
    ELSE [pass |-> TRUE, out |-> Outcome(NoResult, "none")]

(***************************************************************************)
(* Request builders                                                        *)
(***************************************************************************)

TasklistId == "list1"
TaskId == "task1"

NoHeaders == [IfNoneMatch |-> <<>>, ContentLength |-> <<>>, Authorization |-> <<>>]

\* client.get / post / put / patch / delete: bad records a builder error,
\* which RequestBuilder::send reports instead of sending.
Builder(method, url) ==
    [method |-> method, url |-> url, headers |-> NoHeaders, body |-> <<>>, bad |-> FALSE]

\* RequestBuilder::header: appends the value, or poisons the builder when the
\* value is not a valid header value.
WithHeader(b, name, value) ==
    IF HeaderValue_from_bytes_ok(value)
    THEN [b EXCEPT !.headers[name] = Append(@, value)]
    ELSE [b EXCEPT !.bad = TRUE]

\* RequestBuilder::body(serde_json::to_vec(&v)?)
WithBody(b, v) == [b EXCEPT !.body = <<Serialize(v)>>]

\* HeaderMap::insert: the header then has exactly this value.
HeaderInsert(headers, name, value) == [headers EXCEPT ![name] = <<value>>]

\* What the head of an operation decides: return early, or send the builder.
Return(r) == [early |-> <<r>>, builder |-> Builder("", <<>>)]
Send(b) == [early |-> <<>>, builder |-> b]

(***************************************************************************)
(* tasks.rs                                                                *)
(***************************************************************************)

tasks_list(etag) ==
    LET b == Builder("GET", <<"lists", TasklistId, "tasks">>)
    IN  Send(IF etag # <<>> THEN WithHeader(b, "IfNoneMatch", etag[1]) ELSE b)

\* tasks::list without the NOT_MODIFIED branch.
tasks_list_resp_no_304(r) ==
    LET e == ensure_status_success(r)
    IN  IF ~e.pass THEN e.out ELSE Json(r, "Tasks", "Some")

tasks_list_resp(r) ==
    IF r.status = NOT_MODIFIED
    THEN Outcome(Ok("None", <<>>), "none")
    ELSE LET e == ensure_status_success(r)
         IN  IF ~e.pass THEN e.out ELSE Json(r, "Tasks", "Some")

\* tasks::get that drops the etag.
tasks_get_no_header(etag) ==
    Send(Builder("GET", <<"lists", TasklistId, "tasks", TaskId>>))

tasks_get(etag) ==
    LET b == Builder("GET", <<"lists", TasklistId, "tasks", TaskId>>)
    IN  Send(IF etag # <<>> THEN WithHeader(b, "IfNoneMatch", etag[1]) ELSE b)

tasks_get_resp(r) ==
    IF r.status = NOT_MODIFIED
    THEN Outcome(Ok("None", <<>>), "none")
    ELSE LET e == ensure_status_success(r)
         IN  IF ~e.pass THEN e.out ELSE Json(r, "Task", "Some")

tasks_insert(v) ==
    Send(WithBody(Builder("POST", <<"lists", TasklistId, "tasks">>), v))

tasks_insert_resp(r) ==
    LET e == ensure_status_success(r)
    IN  IF ~e.pass THEN e.out ELSE Json(r, "Task", "Value")

\* tasks::update that sends an empty id instead of rejecting None.
tasks_update_no_id_check(v) ==
    Send(WithBody(Builder("PUT", <<"lists", TasklistId, "tasks", IF v.id = <<>> THEN "" ELSE v.id[1]>>),
                  [v EXCEPT !.updated = <<>>]))

tasks_update(v) ==
    IF v.id = <<>>
    THEN Return(InvalidArgument("task id cannot be None"))
    ELSE Send(WithBody(Builder("PUT", <<"lists", TasklistId, "tasks", v.id[1]>>),
                       [v EXCEPT !.updated = <<>>]))

tasks_update_resp(r) ==
    LET e == ensure_status_success(r)
    IN  IF ~e.pass THEN e.out ELSE Json(r, "Task", "Value")

tasks_delete ==
    Send(Builder("DELETE", <<"lists", TasklistId, "tasks", TaskId>>))

tasks_delete_resp(r) ==
    LET e == ensure_status_success(r)
    IN  IF ~e.pass THEN e.out ELSE Outcome(Ok("Unit", <<>>), "none")

tasks_clear ==
    Send(WithHeader(Builder("POST", <<"lists", TasklistId, "clear">>), "ContentLength", <<48>>))

tasks_clear_resp(r) ==
    LET e == ensure_status_success(r)
    IN  IF ~e.pass THEN e.out ELSE Outcome(Ok("Unit", <<>>), "none")

tasks_move_task ==
    Send(WithHeader(Builder("POST", <<"lists", TasklistId, "tasks", TaskId, "move">>),
                    "ContentLength", <<48>>))

tasks_move_task_resp(r) ==
    LET e == ensure_status_success(r)
    IN  IF ~e.pass THEN e.out ELSE Json(r, "Task", "Value")

tasks_patch(v) ==
    Send(WithBody(Builder("PATCH", <<"lists", TasklistId, "tasks", TaskId>>), v))

tasks_patch_resp(r) ==
    LET e == ensure_status_success(r)
    IN  IF ~e.pass THEN e.out ELSE Json(r, "Task", "Value")

(***************************************************************************)
(* tasklists.rs                                                            *)
(***************************************************************************)

handle_response_tasklist(r) ==
    LET e == ensure_status_success(r)
    IN  IF ~e.pass THEN e.out ELSE Json(r, "Tasklist", "Value")

tasklists_list ==
    Send(Builder("GET", <<"users", "@me", "lists">>))

tasklists_list_resp(r) ==
    LET e == ensure_status_success(r)
    IN  IF ~e.pass THEN e.out ELSE Json(r, "Tasklists", "Value")

tasklists_get ==
    Send(Builder("GET", <<"users", "@me", "lists", TasklistId>>))

tasklists_insert(b) ==
    Send(WithBody(Builder("POST", <<"users", "@me", "lists">>), b))

tasklists_update(v) ==
    IF v.id = <<>>
    THEN Return(InvalidArgument("tasklist id cannot be None"))
    ELSE Send(WithBody(Builder("PUT", <<"users", "@me", "lists", v.id[1]>>), v))

tasklists_delete ==
    Send(Builder("DELETE", <<"users", "@me", "lists", TasklistId>>))

tasklists_delete_resp(r) ==
    LET e == ensure_status_success(r)
    IN  IF ~e.pass THEN e.out ELSE Outcome(Ok("Unit", <<>>), "none")

tasklists_patch(v) ==
    Send(WithBody(Builder("PATCH", <<"users", "@me", "lists", TasklistId>>), v))

\* The code that runs once the transport has answered, per operation.
Continue(name, r) ==
    CASE name = "list_tasks" -> tasks_list_resp(r)
      [] name = "get_task" -> tasks_get_resp(r)
      [] name = "insert_task" -> tasks_insert_resp(r)
      [] name = "update_task" -> tasks_update_resp(r)
      [] name = "delete_task" -> tasks_delete_resp(r)
      [] name = "clear_tasks" -> tasks_clear_resp(r)
      [] name = "move_task" -> tasks_move_task_resp(r)
      [] name = "patch_task" -> tasks_patch_resp(r)
      [] name = "list_tasklists" -> tasklists_list_resp(r)
      [] name = "delete_tasklist" -> tasklists_delete_resp(r)
      [] name \in {"get_tasklist", "insert_tasklist", "update_tasklist", "patch_tasklist"}
            -> handle_response_tasklist(r)

(***************************************************************************)
(* http.rs                                                                 *)
(***************************************************************************)

\* handle that forwards the request unauthenticated when the provider fails.
AuthMiddleware_handle_ignores_error(rq, out) ==
    IF ~out.ok \/ ~HeaderValue_from_bytes_ok(out.token)
    THEN [forward |-> TRUE, req |-> rq, err |-> NoResult]
    ELSE [forward |-> TRUE,
          req |-> [rq EXCEPT !.headers = HeaderInsert(@, "Authorization", out.token)],
          err |-> NoResult]

\* handle that reuses one cached token instead of the provider's answer.
AuthMiddleware_handle_cached_token(rq, out) ==
    IF ~out.ok
    THEN [forward |-> FALSE, req |-> rq, err |-> MiddlewareError("Middleware", out.error)]
    ELSE IF ~HeaderValue_from_bytes_ok(out.token)
    THEN [forward |-> FALSE, req |-> rq, err |-> MiddlewareError("Middleware", "invalid header value")]
    ELSE [forward |-> TRUE,
          req |-> [rq EXCEPT !.headers = HeaderInsert(@, "Authorization", Token1)],
          err |-> NoResult]

\* handle that drops the bytes a header cannot hold and forwards the rest.
AuthMiddleware_handle_strips_bytes(rq, out) ==
    IF ~out.ok
    THEN [forward |-> FALSE, req |-> rq, err |-> MiddlewareError("Middleware", out.error)]
    ELSE [forward |-> TRUE,
          req |-> [rq EXCEPT !.headers =
                      HeaderInsert(@, "Authorization", SelectSeq(out.token, IsValidHeaderByte))],
          err |-> NoResult]

\* AuthMiddleware::handle on request rq when the token provider answers out:
\* forward says whether next.run is called, and with which request.
AuthMiddleware_handle(rq, out) ==
    IF ~out.ok
    THEN [forward |-> FALSE, req |-> rq, err |-> MiddlewareError("Middleware", out.error)]
    ELSE IF ~HeaderValue_from_bytes_ok(out.token)
    THEN [forward |-> FALSE, req |-> rq, err |-> MiddlewareError("Middleware", "invalid header value")]
    ELSE [forward |-> TRUE,
          req |-> [rq EXCEPT !.headers = HeaderInsert(@, "Authorization", out.token)],
          err |-> NoResult]

(***************************************************************************)
(* State machine                                                           *)
(***************************************************************************)

NoArgs == [etag |-> <<>>, v |-> <<>>]

Init ==
    /\ pc = [c \in Calls |-> "idle"]
    /\ op = [c \in Calls |-> ""]
    /\ arg = [c \in Calls |-> NoArgs]
    /\ req = [c \in Calls |-> <<>>]
    /\ supplied = [c \in Calls |-> <<>>]
    /\ wire = [c \in Calls |-> <<>>]
    /\ resp = [c \in Calls |-> <<>>]
    /\ consumed = [c \in Calls |-> "none"]
    /\ result = [c \in Calls |-> NoResult]

\* A Service method is invoked with arguments a; head is what its code decides
\* before the request enters the middleware.  RequestBuilder::send builds the
\* request first and returns the builder's error without calling the middleware.
Invoke(c, name, a, head) ==
    /\ op' = [op EXCEPT ![c] = name]
    /\ arg' = [arg EXCEPT ![c] = a]
    /\ IF head.early # <<>>
       THEN /\ pc' = [pc EXCEPT ![c] = "done"]
            /\ result' = [result EXCEPT ![c] = head.early[1]]
            /\ req' = req
       ELSE IF head.builder.bad
       THEN /\ pc' = [pc EXCEPT ![c] = "done"]
            /\ result' = [result EXCEPT ![c] = MiddlewareError("Reqwest", "builder error")]
            /\ req' = req
       ELSE /\ pc' = [pc EXCEPT ![c] = "handle"]
            /\ result' = result
            /\ req' = [req EXCEPT ![c] = <<head.builder>>]
    /\ UNCHANGED <<supplied, wire, resp, consumed>>

list_tasklists(c) ==
    /\ pc[c] = "idle"
    /\ Invoke(c, "list_tasklists", NoArgs, tasklists_list)

get_tasklist(c) ==
    /\ pc[c] = "idle"
    /\ Invoke(c, "get_tasklist", NoArgs, tasklists_get)

insert_tasklist(c) ==
    /\ pc[c] = "idle"
    /\ \E v \in NewEntities :
        Invoke(c, "insert_tasklist", [etag |-> <<>>, v |-> <<v>>], tasklists_insert(v))

update_tasklist(c) ==
    /\ pc[c] = "idle"
    /\ \E v \in Entities :
        Invoke(c, "update_tasklist", [etag |-> <<>>, v |-> <<v>>], tasklists_update(v))

delete_tasklist(c) ==
    /\ pc[c] = "idle"
    /\ Invoke(c, "delete_tasklist", NoArgs, tasklists_delete)

patch_tasklist(c) ==
    /\ pc[c] = "idle"
    /\ \E v \in NewEntities :
        Invoke(c, "patch_tasklist", [etag |-> <<>>, v |-> <<v>>], tasklists_patch(v))

list_tasks(c) ==
    /\ pc[c] = "idle"
    /\ \E etag \in Etags :
        Invoke(c, "list_tasks", [etag |-> etag, v |-> <<>>], tasks_list(etag))

get_task(c) ==
    /\ pc[c] = "idle"
    /\ \E etag \in Etags :
        Invoke(c, "get_task", [etag |-> etag, v |-> <<>>], tasks_get(etag))

insert_task(c) ==
    /\ pc[c] = "idle"
    /\ \E v \in NewEntities :
        Invoke(c, "insert_task", [etag |-> <<>>, v |-> <<v>>], tasks_insert(v))

update_task(c) ==
    /\ pc[c] = "idle"
    /\ \E v \in Entities :
        Invoke(c, "update_task", [etag |-> <<>>, v |-> <<v>>], tasks_update(v))

delete_task(c) ==
    /\ pc[c] = "idle"
    /\ Invoke(c, "delete_task", NoArgs, tasks_delete)

clear_tasks(c) ==
    /\ pc[c] = "idle"
    /\ Invoke(c, "clear_tasks", NoArgs, tasks_clear)

move_task(c) ==
    /\ pc[c] = "idle"
    /\ Invoke(c, "move_task", NoArgs, tasks_move_task)

patch_task(c) ==
    /\ pc[c] = "idle"
    /\ \E v \in NewEntities :
        Invoke(c, "patch_task", [etag |-> <<>>, v |-> <<v>>], tasks_patch(v))

\* The middleware runs: the token provider is called once and answers out.
Handle(c) ==
    /\ pc[c] = "handle"
    /\ \E out \in SupplierOutcomes :
        LET h == AuthMiddleware_handle(req[c][1], out)
        IN  /\ supplied' = [supplied EXCEPT ![c] = Append(@, out)]
            /\ IF h.forward
               THEN /\ pc' = [pc EXCEPT ![c] = "inflight"]
                    /\ req' = [req EXCEPT ![c] = <<h.req>>]
                    /\ wire' = [wire EXCEPT ![c] = Append(@, h.req)]
                    /\ result' = result
               ELSE /\ pc' = [pc EXCEPT ![c] = "done"]
                    /\ result' = [result EXCEPT ![c] = h.err]
                    /\ UNCHANGED <<req, wire>>
    /\ UNCHANGED <<op, arg, resp, consumed>>

\* next.run returns: a transport failure ends the call (send().await?), a
\* response is classified by the rest of the operation.
Complete(c) ==
    /\ pc[c] = "inflight"
    /\ \E t \in TransportOutcomes :
        IF ~t.ok
        THEN /\ result' = [result EXCEPT ![c] = MiddlewareError("Reqwest", "transport")]
             /\ UNCHANGED <<resp, consumed>>
        ELSE LET o == Continue(op[c], t.response)
             IN  /\ resp' = [resp EXCEPT ![c] = <<t.response>>]
                 /\ result' = [result EXCEPT ![c] = o.result]
                 /\ consumed' = [consumed EXCEPT ![c] = o.consumed]
    /\ pc' = [pc EXCEPT ![c] = "done"]
    /\ UNCHANGED <<op, arg, req, supplied, wire>>

Next ==
    \E c \in Calls :
        \/ list_tasklists(c)
        \/ get_tasklist(c)
        \/ insert_tasklist(c)
        \/ update_tasklist(c)
        \/ delete_tasklist(c)
        \/ patch_tasklist(c)
        \/ list_tasks(c)
        \/ get_task(c)
        \/ insert_task(c)
        \/ update_task(c)
        \/ delete_task(c)
        \/ clear_tasks(c)
        \/ move_task(c)
        \/ patch_task(c)
        \/ Handle(c)
        \/ Complete(c)

Spec == Init /\ [][Next]_vars

(***************************************************************************)
(* Properties                                                              *)
(***************************************************************************)

ConditionalOps == {"list_tasks", "get_task"}
UpdateOps == {"update_task", "update_tasklist"}
UnitOps == {"delete_task", "delete_tasklist", "clear_tasks"}

LastSupplied(c) == supplied[c][Len(supplied[c])]

\* The call is over and the transport had delivered a response.
Answered(c) == pc[c] = "done" /\ resp[c] # <<>>

\* The call got a non-2xx response that is not a 304 taken as Unchanged.
Rejected(c) ==
    /\ Answered(c)
    /\ ~IsSuccess(resp[c][1].status)
    /\ ~(op[c] \in ConditionalOps /\ resp[c][1].status = NOT_MODIFIED)

Bearer == <<66, 101, 97, 114, 101, 114, 32>>

\* C1: every request forwarded to the transport has exactly one Authorization
\* value, "Bearer " followed by the token the provider returned for it.
C1_AuthorizationIsBearerToken ==
    \A c \in Calls : \A i \in DOMAIN wire[c] :
        /\ supplied[c] # <<>>
        /\ LastSupplied(c).ok
        /\ wire[c][i].headers.Authorization = <<Bearer \o LastSupplied(c).token>>

\* C2: when the token provider fails, the request never reaches the transport
\* and the call returns MiddlewareError carrying the provider's error.
C2_SupplierErrorNeverSent ==
    \A c \in Calls :
        (supplied[c] # <<>> /\ ~LastSupplied(c).ok) =>
            /\ wire[c] = <<>>
            /\ resp[c] = <<>>
            /\ pc[c] = "done"
            /\ result[c].tag = "Err"
            /\ result[c].variant = "MiddlewareError"
            /\ result[c].kind = "Middleware"
            /\ result[c].msg = LastSupplied(c).error

C2_Witness ==
    \E c \in Calls : supplied[c] # <<>> /\ ~LastSupplied(c).ok /\ pc[c] = "done"

\* C3: list_tasks and get_task called with Some(etag) return Ok(None) on a 304
\* response, without reading or decoding the body.
C3_NotModifiedIsUnchanged ==
    \A c \in Calls :
        (/\ Answered(c)
         /\ op[c] \in ConditionalOps
         /\ arg[c].etag # <<>>
         /\ resp[c][1].status = NOT_MODIFIED) =>
            /\ result[c].tag = "Ok"
            /\ result[c].variant = "None"
            /\ result[c].val = <<>>
            /\ consumed[c] = "none"

C3_Witness ==
    \E c \in Calls, d \in Calls :
        /\ Answered(c) /\ op[c] = "list_tasks" /\ arg[c].etag # <<>>
        /\ resp[c][1].status = NOT_MODIFIED
        /\ Answered(d) /\ op[d] = "get_task" /\ arg[d].etag # <<>>
        /\ resp[d][1].status = NOT_MODIFIED /\ resp[d][1].body = BodyFullObject

\* C4 as claimed: every rejected response yields ResponseError whose message is
\* the response body text.
C4_RejectedYieldsResponseError ==
    \A c \in Calls :
        Rejected(c) => result[c] = ResponseError(Text(resp[c][1].body))

\* C4 as amended: a rejected response never yields a success; it yields
\* ResponseError with exactly the body text when the body can be read, and
\* HttpError when reading the body fails.
C4_RejectedYieldsResponseErrorWhenRead ==
    \A c \in Calls :
        Rejected(c) =>
            /\ result[c].tag = "Err"
            /\ consumed[c] = "text"
            /\ IF resp[c][1].readable
               THEN /\ result[c].variant = "ResponseError"
                    /\ result[c].text = Text(resp[c][1].body)
               ELSE result[c].variant = "HttpError"

C4_Witness ==
    \E c \in Calls, d \in Calls :
        /\ Rejected(c) /\ resp[c][1].readable /\ resp[c][1].body = BodyFullObject
        /\ op[c] = "get_tasklist" /\ result[c].variant = "ResponseError"
        /\ Rejected(d) /\ resp[d][1].readable /\ resp[d][1].body = BodyGarbage
        /\ op[d] = "insert_task" /\ resp[d][1].status = NOT_MODIFIED

\* Two calls were rejected with the same readable body.
RejectedAlike(c, d) ==
    /\ Rejected(c) /\ Rejected(d)
    /\ resp[c][1].readable /\ resp[d][1].readable
    /\ resp[c][1].body = resp[d][1].body

PayloadType(name) ==
    CASE name \in {"list_tasks"} -> "Tasks"
      [] name \in {"list_tasklists"} -> "Tasklists"
      [] name \in {"get_task", "insert_task", "update_task", "move_task", "patch_task"} -> "Task"
      [] OTHER -> "Tasklist"

\* A 2xx response to an operation that expects a body, whose body was read in
\* full and is empty or does not parse as the expected payload.
DecodeFailed(c) ==
    /\ Answered(c)
    /\ op[c] \notin UnitOps
    /\ IsSuccess(resp[c][1].status)
    /\ resp[c][1].readable
    /\ \/ ParseJson(resp[c][1].body) = <<>>
       \/ ~(RequiredFields(PayloadType(op[c])) \subseteq ParseJson(resp[c][1].body)[1])

\* The network failed: no response arrived, or the body stream broke while it
\* was being read.
TransportFailed(c) ==
    /\ pc[c] = "done"
    /\ \/ wire[c] # <<>> /\ resp[c] = <<>>
       \/ resp[c] # <<>> /\ ~resp[c][1].readable /\ consumed[c] # "none"

\* C6: a 2xx response whose body is empty or unparseable yields an error whose
\* kind is neither that of rejected responses nor that of transport failures.
C6_DecodeErrorIsDistinctKind ==
    \A c \in Calls :
        DecodeFailed(c) =>
            /\ result[c].tag = "Err"
            /\ result[c].variant # "ResponseError"
            /\ \A d \in Calls : TransportFailed(d) => result[c].variant # result[d].variant

\* C7: update_task and update_tasklist with id None return InvalidArgument
\* without calling the token provider and without any request to the transport.
C7_UpdateWithoutIdFailsFast ==
    \A c \in Calls :
        (op[c] \in UpdateOps /\ arg[c].v[1].id = <<>>) =>
            /\ pc[c] = "done"
            /\ result[c].tag = "Err"
            /\ result[c].variant = "InvalidArgument"
            /\ req[c] = <<>>
            /\ supplied[c] = <<>>
            /\ wire[c] = <<>>
            /\ resp[c] = <<>>

C7_Witness ==
    \E c \in Calls, d \in Calls :
        /\ op[c] = "update_task" /\ arg[c].v[1].id = <<>> /\ pc[c] = "done"
        /\ op[d] = "update_tasklist" /\ arg[d].v[1].id = <<>> /\ pc[d] = "done"

\* C8: the body update_task and update_tasklist send does not contain the
\* "updated" field when the entity passed in has it populated.
C8_UpdateBodyOmitsUpdated ==
    \A c \in Calls : \A i \in DOMAIN wire[c] :
        (op[c] \in UpdateOps /\ arg[c].v[1].updated # <<>>) =>
            "updated" \notin DOMAIN wire[c][i].body[1]

\* C9: a list_tasks or get_task request carries If-None-Match iff the caller
\* passed an ETag, and then its only value is that ETag.
C9_IfNoneMatchIffEtag ==
    \A c \in Calls : \A i \in DOMAIN wire[c] :
        op[c] \in ConditionalOps =>
            /\ (wire[c][i].headers.IfNoneMatch # <<>>) <=> (arg[c].etag # <<>>)
            /\ arg[c].etag # <<>> => wire[c][i].headers.IfNoneMatch = <<arg[c].etag[1]>>

C9_Witness ==
    \E c \in Calls, d \in Calls :
        /\ op[c] = "get_task" /\ wire[c] # <<>> /\ arg[c].etag = <<EtagA>>
        /\ op[d] = "list_tasks" /\ wire[d] # <<>> /\ arg[d].etag = <<>>

\* C10: a 304 response to list_tasks or get_task called with etag None is not
\* Unchanged: it is returned as a ResponseError.
C10_UnchangedOnlyWhenConditional ==
    \A c \in Calls :
        (/\ Answered(c)
         /\ op[c] \in ConditionalOps
         /\ arg[c].etag = <<>>
         /\ resp[c][1].status = NOT_MODIFIED) =>
            /\ result[c].tag = "Err"
            /\ resp[c][1].readable => result[c].variant = "ResponseError"

\* Something failed in the call: the token provider, the transport, a status
\* that is neither 2xx nor the 304 of a conditional read, or reading or
\* decoding a body the operation expects.
Failed(c) ==
    \/ supplied[c] # <<>> /\ ~LastSupplied(c).ok
    \/ wire[c] # <<>> /\ resp[c] = <<>>
    \/ /\ resp[c] # <<>>
       /\ ~IsSuccess(resp[c][1].status)
       /\ ~(op[c] \in ConditionalOps /\ arg[c].etag # <<>> /\ resp[c][1].status = NOT_MODIFIED)
    \/ /\ resp[c] # <<>>
       /\ IsSuccess(resp[c][1].status)
       /\ op[c] \notin UnitOps
       /\ ~resp[c][1].readable
    \/ DecodeFailed(c)

\* C11: an invocation calls the token provider and the transport at most once,
\* and once anything has failed it returns an error: never a success, never
\* Unchanged.
C11_SingleSendErrorsReturned ==
    \A c \in Calls :
        /\ Len(supplied[c]) <= 1
        /\ Len(wire[c]) <= 1
        /\ (pc[c] = "done" /\ Failed(c)) => result[c].tag = "Err"

\* C12: a request that reached the transport was preceded by exactly one call
\* of the token provider made for it, and carries the token that call returned,
\* whatever the other invocations were given.
C12_OwnTokenPerRequest ==
    \A c \in Calls : \A i \in DOMAIN wire[c] :
        /\ Len(supplied[c]) = 1
        /\ Len(wire[c]) = 1
        /\ supplied[c][1].ok
        /\ wire[c][i].headers.Authorization = <<supplied[c][1].token>>

C12_Witness ==
    \E c \in Calls, d \in Calls :
        /\ pc[c] = "inflight" /\ pc[d] = "inflight"
        /\ wire[c] # <<>> /\ wire[d] # <<>>
        /\ supplied[c][1].token = Token1 /\ supplied[d][1].token = Token2
        /\ wire[c][1].headers.Authorization = <<Token1>>
        /\ wire[d][1].headers.Authorization = <<Token2>>

\* The provider answered Ok with a token that is no valid header value.
UnusableToken(c) ==
    /\ supplied[c] # <<>>
    /\ LastSupplied(c).ok
    /\ \E i \in DOMAIN LastSupplied(c).token : ~IsValidHeaderByte(LastSupplied(c).token[i])

\* C13: when the provider returns a token that cannot be a header value, the
\* call ends with a middleware error and nothing is forwarded; every forwarded
\* request carries the whole token as its one Authorization value.
C13_UnusableTokenNeverSent ==
    \A c \in Calls :
        /\ UnusableToken(c) =>
            /\ wire[c] = <<>>
            /\ resp[c] = <<>>
            /\ pc[c] = "done"
            /\ result[c].tag = "Err"
            /\ result[c].variant = "MiddlewareError"
            /\ result[c].kind = "Middleware"
        /\ \A i \in DOMAIN wire[c] :
            /\ Len(wire[c][i].headers.Authorization) = 1
            /\ wire[c][i].headers.Authorization[1] = LastSupplied(c).token

C13_Witness ==
    \E c \in Calls, d \in Calls :
        /\ UnusableToken(c) /\ LastSupplied(c).token = TokenNewline /\ pc[c] = "done"
        /\ wire[d] # <<>> /\ pc[d] = "done"

====
